---- MODULE Spec2Model ----
(***************************************************************************)
(* Model of demo.js: one routing request, its two callbacks, the five      *)
(* rendering helpers, the per-section marker timers and the ease()         *)
(* animation sessions.                                                     *)
(*                                                                         *)
(* Numbers.  The phase accumulator of ease() decides the control flow of   *)
(* step() by the comparison currentSinValue < Math.PI, so it is modelled   *)
(* as an IEEE-754 double: a magnitude kept in 16-bit limbs (least          *)
(* significant first) counting units of 2^-FracBits, rounded to            *)
(* SigBits significant bits, ties to even, after every operation.  The     *)
(* grid of 2^-56 holds every double >= 2^-4 exactly, which covers          *)
(* Math.PI / stepCount for |durationMs| <= 800.                            *)
(* Coordinates only flow through to the callbacks, so they are fixed-point *)
(* integers (unit 1e-9 degree, as offsets from the map centre of line 70), *)
(* and Math.sin(x) ** 2 * 2 is Bhaskara's rational approximation in units  *)
(* of 1/1024.                                                              *)
(***************************************************************************)
EXTENDS Integers, Sequences, FiniteSets, TLC

\* ------------------------------------------------------------- bounds ----
MaxTicks == 28      \* ticks of one session that are recorded
MaxFires == 7       \* invocations of updateMarkerPositions per section
MaxSections == 2    \* sections of the delivered route
MaxActions == 2     \* actions of one section

\* -------------------------------------------------- program constants ----
TickMs == 16        \* raf fallback delay and the divisor of stepCount
IntervalMs == 2000  \* setTimeout / setInterval period
MarkerDurationMs == 400
FracBits == 56
SigBits == 53
GuardBits == 8
LimbBits == 16
SinScale == 1024
PiQ == 3217         \* pi in units of 1/1024, the argument grid of Sin2x2
NonFinite == -2000000000   \* stands for NaN and +-Infinity of a coordinate
NotScheduled == -1

\* Math.PI = 0x400921FB54442D18; Math.PI * 2^56 = 0x0324 3F6A 8885 A300
PiLimbs == <<41728, 34949, 16234, 804, 0>>

\* the element of a one-element set; Only({F(w) : w \in {v}}) is F(v) with
\* v evaluated once, however often F uses it
Only(S) == CHOOSE r \in S : TRUE

\* ------------------------------------------------ IEEE double helpers ----
\* A magnitude is five limbs of LimbBits bits, least significant first.
Pow2(n) == 2 ^ n

Base == Pow2(LimbBits)

ZeroLimbs == <<0, 0, 0, 0, 0>>

AddLimbs(x, y) ==
  LET t1 == x[1] + y[1]
      t2 == x[2] + y[2] + (t1 \div Base)
      t3 == x[3] + y[3] + (t2 \div Base)
      t4 == x[4] + y[4] + (t3 \div Base)
      t5 == x[5] + y[5] + (t4 \div Base)
  IN <<t1 % Base, t2 % Base, t3 % Base, t4 % Base, t5 % Base>>

\* x * k for a small k
MulSmall(x, k) ==
  LET t1 == x[1] * k
      t2 == x[2] * k + (t1 \div Base)
      t3 == x[3] * k + (t2 \div Base)
      t4 == x[4] * k + (t3 \div Base)
      t5 == x[5] * k + (t4 \div Base)
  IN <<t1 % Base, t2 % Base, t3 % Base, t4 % Base, t5 % Base>>

\* quotient and remainder of x by a small d > 0
DivSmall(x, d) ==
  LET c5 == x[5]
      c4 == (c5 % d) * Base + x[4]
      c3 == (c4 % d) * Base + x[3]
      c2 == (c3 % d) * Base + x[2]
      c1 == (c2 % d) * Base + x[1]
  IN [q |-> <<c1 \div d, c2 \div d, c3 \div d, c4 \div d, c5 \div d>>, r |-> c1 % d]

\* x / 2^GuardBits, for x a multiple of 2^GuardBits
DropGuard(x) ==
  LET g == Pow2(GuardBits)
      up == Base \div g
  IN <<(x[1] \div g) + (x[2] % g) * up,
       (x[2] \div g) + (x[3] % g) * up,
       (x[3] \div g) + (x[4] % g) * up,
       (x[4] \div g) + (x[5] % g) * up,
       x[5] \div g>>

BitLen(v) == IF v = 0 THEN 0 ELSE CHOOSE n \in 1..LimbBits : Pow2(n - 1) <= v /\ v < Pow2(n)

\* position of the most significant 1 bit, 0 for zero
Msb(x) ==
  IF x[5] # 0 THEN 4 * LimbBits + BitLen(x[5])
  ELSE IF x[4] # 0 THEN 3 * LimbBits + BitLen(x[4])
  ELSE IF x[3] # 0 THEN 2 * LimbBits + BitLen(x[3])
  ELSE IF x[2] # 0 THEN LimbBits + BitLen(x[2])
  ELSE BitLen(x[1])

\* round to nearest, ties to even, keeping SigBits significant bits; the
\* dropped bits lie in the lowest limb, sticky tells of nonzero bits below it
RoundBits(x, sticky) ==
  Only({IF drop <= 0 THEN x
        ELSE Only({LET odd == (x[1] \div unit) % 2 = 1
                       up == \/ 2 * low > unit
                             \/ 2 * low = unit /\ (sticky \/ odd)
                       kept == [x EXCEPT ![1] = x[1] - low]
                   IN IF up THEN AddLimbs(kept, <<unit, 0, 0, 0, 0>>) ELSE kept :
                   unit \in {Pow2(drop)}, low \in {x[1] % Pow2(drop)}}) :
        drop \in {Msb(x) - SigBits}})

\* the double nearest to x + y
FAdd(x, y) == Only({RoundBits(sum, FALSE) : sum \in {AddLimbs(x, y)}})

\* the double nearest to 16 * x / d, for an integer d > 0
FDivInt(x, d) ==
  Only({Only({DropGuard(rounded) : rounded \in {RoundBits(res.q, res.r # 0)}}) :
        res \in {Only({DivSmall(scaled, d) :
                       scaled \in {MulSmall(x, TickMs * Pow2(GuardBits))}})}})

MagLess(x, y) ==
  \E i \in 1..5 : x[i] < y[i] /\ \A j \in (i + 1)..5 : x[j] = y[j]

Abs(n) == IF n < 0 THEN -n ELSE n

\* a double: sign, infinity flag, magnitude
Zero == [neg |-> FALSE, inf |-> FALSE, mag |-> ZeroLimbs]

\* currentSinValue < Math.PI
LessThanPi(p) == p.neg \/ (~p.inf /\ MagLess(p.mag, PiLimbs))

\* currentSinValue += sinValueIncrement; the accumulator is 0 or has the
\* sign of the increment, so the magnitudes add
PhaseAdd(p, inc) ==
  IF p.inf \/ inc.inf
    THEN [neg |-> inc.neg, inf |-> TRUE, mag |-> ZeroLimbs]
    ELSE [neg |-> inc.neg, inf |-> FALSE, mag |-> FAdd(p.mag, inc.mag)]

\* Math.PI / stepCount with stepCount = durationMs / 16 (an exact division
\* by a power of two), i.e. the double nearest to 16 * pi / durationMs
SinValueIncrement(durationMs) ==
  IF durationMs = 0
    THEN [neg |-> FALSE, inf |-> TRUE, mag |-> ZeroLimbs]
    ELSE [neg |-> durationMs < 0, inf |-> FALSE,
          mag |-> FDivInt(PiLimbs, Abs(durationMs))]

\* ------------------------------------------------ coordinate helpers ----
\* the magnitude in units of 1/1024, truncated
Coarse(x) ==
  (x[5] * Base + x[4]) * Pow2(3 * LimbBits - (FracBits - 10))
    + x[3] \div Pow2(FracBits - 10 - 2 * LimbBits)

\* Math.sin(x) ** 2 * 2 in units of 1/SinScale.  sin^2 is even and has
\* period pi; on [0, pi] sin(x) ~ 16 x (pi - x) / (5 pi^2 - 4 x (pi - x)).
Sin2x2(p) ==
  IF p.inf THEN NonFinite
  ELSE Only({(2 * sin * sin) \div SinScale :
             sin \in {Only({(16 * xp) \div ((5 * PiQ * PiQ - 4 * xp) \div SinScale) :
                            xp \in {Only({x * (PiQ - x) : x \in {Coarse(p.mag) % PiQ}})}})}})

\* (endCoord - startCoord) / stepCount
ValueIncrement(startV, endV, durationMs) ==
  IF durationMs = 0 THEN NonFinite
  ELSE ((endV - startV) * TickMs) \div durationMs

\* value + increment * sin2x2, the product taken without overflow
Advance(value, increment, sin2x2) ==
  IF value = NonFinite \/ increment = NonFinite \/ sin2x2 = NonFinite
    THEN NonFinite
    ELSE value + (increment \div SinScale) * sin2x2
               + ((increment % SinScale) * sin2x2) \div SinScale

Coord(lat, lng) == [lat |-> lat, lng |-> lng]

\* ------------------------------------------------------------- state ----
VARIABLES
  request,    \* "none", "pending", "ok" or "failed": the routing request
  requests,   \* number of calculateRoute calls issued
  alerts,     \* number of alert() calls
  helpers,    \* the rendering helpers called so far, in order
  mapObjects, \* objects added to the map, in order
  panel,      \* children of routeInstructionsContainer, in order
  route,      \* the sections of result.routes[0], <<>> before a response
  sections,   \* per section: counter, marker position, its two timers
  sessions    \* every ease() session started so far, by <<marker, n>>:
              \* the n-th session started for that marker

vars == <<request, requests, alerts, helpers, mapObjects, panel, route,
          sections, sessions>>

page == <<request, requests, alerts, helpers, mapObjects, panel, route>>

\* ------------------------------------------------------------- ease ----
\* lines 185-203 and 219: the closure of one ease() call, its first tick
\* scheduled; marker = 0 when onStep does not move a marker
ease(startCoord, endCoord, durationMs, marker) ==
  [marker |-> marker,
   startCoord |-> startCoord,
   endCoord |-> endCoord,
   durationMs |-> durationMs,
   valueIncrementLat |-> ValueIncrement(startCoord.lat, endCoord.lat, durationMs),
   valueIncrementLng |-> ValueIncrement(startCoord.lng, endCoord.lng, durationMs),
   sinValueIncrement |-> SinValueIncrement(durationMs),
   currentValueLat |-> startCoord.lat,
   currentValueLng |-> startCoord.lng,
   currentSinValue |-> Zero,
   raf |-> TickMs,
   calls |-> <<>>,
   unrecorded |-> 0]

\* lines 206-208: the accumulators after one more tick
Moved(s) ==
  Only({[s EXCEPT !.currentSinValue = sinValue[1],
                  !.currentValueLat = Advance(@, s.valueIncrementLat, sinValue[2]),
                  !.currentValueLng = Advance(@, s.valueIncrementLng, sinValue[2])] :
        sinValue \in {Only({<<p, Sin2x2(p)>> :
                            p \in {PhaseAdd(s.currentSinValue, s.sinValueIncrement)}})}})

Current(s) == Coord(s.currentValueLat, s.currentValueLng)

\* step() with onComplete called ahead of the final onStep
stepCompleteFirst(s) ==
  Only({IF LessThanPi(moved.currentSinValue)
          THEN [moved EXCEPT !.calls = Append(@, <<"onStep", Current(moved)>>),
                             !.raf = TickMs]
          ELSE [moved EXCEPT !.calls = @ \o <<<<"onComplete">>, <<"onStep", s.endCoord>>>>,
                             !.raf = NotScheduled] :
        moved \in {Moved(s)}})

\* step() with the final onStep handing over the accumulated position
stepAccumulatedEnd(s) ==
  Only({IF LessThanPi(moved.currentSinValue)
          THEN [moved EXCEPT !.calls = Append(@, <<"onStep", Current(moved)>>),
                             !.raf = TickMs]
          ELSE [moved EXCEPT !.calls = @ \o <<<<"onStep", Current(moved)>>, <<"onComplete">>>>,
                             !.raf = NotScheduled] :
        moved \in {Moved(s)}})

\* step() with currentSinValue a variable shared by all sessions instead of
\* one per closure: every session reads the phase of the first one
stepSharedPhase(s) ==
  Only({IF LessThanPi(moved.currentSinValue)
          THEN [moved EXCEPT !.calls = Append(@, <<"onStep", Current(moved)>>),
                             !.raf = TickMs]
          ELSE [moved EXCEPT !.calls = @ \o <<<<"onStep", s.endCoord>>, <<"onComplete">>>>,
                             !.raf = NotScheduled] :
        moved \in {Moved(IF <<0, 1>> \in DOMAIN sessions
                           THEN [s EXCEPT !.currentSinValue =
                                            sessions[<<0, 1>>].currentSinValue]
                           ELSE s)}})

\* lines 205-217: one run of step()
step(s) ==
  Only({IF LessThanPi(moved.currentSinValue)
          THEN [moved EXCEPT !.calls = Append(@, <<"onStep", Current(moved)>>),
                             !.raf = TickMs]
          ELSE [moved EXCEPT !.calls = @ \o <<<<"onStep", s.endCoord>>, <<"onComplete">>>>,
                             !.raf = NotScheduled] :
        moved \in {Moved(s)}})

\* a session whose MaxTicks recorded calls are used up keeps ticking: of the
\* further ticks only the parity is kept
Ticked(s) ==
  IF Len(s.calls) >= MaxTicks
    THEN [s EXCEPT !.raf = TickMs, !.unrecorded = 1 - @]
    ELSE step(s)

OnSteps(s) == SelectSeq(s.calls, LAMBDA c : c[1] = "onStep")

OnCompletes(s) == SelectSeq(s.calls, LAMBDA c : c[1] = "onComplete")

Completed(s) == Len(OnCompletes(s)) > 0

\* the position the last onStep of a tick handed over, if any
RECURSIVE LastStep(_, _)
LastStep(calls, default) ==
  IF Len(calls) = 0 THEN default
  ELSE IF calls[Len(calls)][1] = "onStep" THEN calls[Len(calls)][2]
  ELSE LastStep(SubSeq(calls, 1, Len(calls) - 1), default)

\* ----------------------------------------- ease() called on its own ----
Durations == {-160, 0, 16, 96, 160, 200, 400}

Starts == {Coord(0, 0)}

Ends == {Coord(10000000, 20000000), Coord(-3000000, 500)}

EaseArgs == [startCoord : Starts, endCoord : Ends, durationMs : Durations]

InitEase ==
  /\ request = "none"
  /\ requests = 0
  /\ alerts = 0
  /\ helpers = <<>>
  /\ mapObjects = <<>>
  /\ panel = <<>>
  /\ route = <<>>
  /\ sections = <<>>
  /\ \E arg1 \in EaseArgs, arg2 \in EaseArgs :
       sessions = (<<0, 1>> :> ease(arg1.startCoord, arg1.endCoord, arg1.durationMs, 0))
                    @@ (<<0, 2>> :> ease(arg2.startCoord, arg2.endCoord, arg2.durationMs, 0))

\* the scheduling primitive runs the scheduled step() of a session, at
\* whatever time it chooses
EaseTick(id) ==
  /\ sessions[id].raf # NotScheduled
  /\ sessions' = [sessions EXCEPT ![id] = Ticked(sessions[id])]
  /\ UNCHANGED <<page, sections>>

EaseIds == {<<0, 1>>, <<0, 2>>}

NextEase == \E id \in EaseIds : EaseTick(id)

SpecEase == InitEase /\ [][NextEase]_vars

\* the scheduling primitive runs every scheduled step
FairSpecEase == SpecEase /\ \A id \in EaseIds : WF_vars(EaseTick(id))

\* ---------------------------------------------------------- the page ----
\* lines 152-159, as offsets from the map centre (52.516, 13.3779)
initialPositions ==
  <<Coord(233000, 411000), Coord(280000, 1630000), Coord(370000, 2950000),
    Coord(2080000, 2550000), Coord(2930000, 2400000), Coord(4660000, 8208000)>>

\* a section of the response: the first point of its polyline, its actions,
\* the two road names addWaypointsToPanel reads, and its travel summary
Section(i, k) ==
  [start |-> Coord((i - 1) * 4660000, (i - 1) * 8208000),
   actions |-> [j \in 1..k |-> [instruction |-> 100 * i + j, offset |-> j - 1]],
   nextRoad |-> 10 * i + 1,
   currentRoad |-> 10 * i + 2,
   travelSummary |-> [length |-> 700 * i, duration |-> 59 + 66 * (i - 1)]]

\* result.routes[0].sections of the responses the service can deliver
Routes ==
  {[i \in 1..n |-> Section(i, k)] : n \in 1..MaxSections, k \in 1..MaxActions}

Stale == [tag |-> "p", content |-> <<0>>]

Panels == {<<>>, <<Stale>>}

RECURSIVE Flatten(_)
Flatten(seqs) == IF Len(seqs) = 0 THEN <<>> ELSE Head(seqs) \o Flatten(Tail(seqs))

RECURSIVE Sum(_)
Sum(nums) == IF Len(nums) = 0 THEN 0 ELSE Head(nums) + Sum(Tail(nums))

\* the page as the helpers see it
Dom == [helpers |-> helpers, mapObjects |-> mapObjects, panel |-> panel,
        sections |-> sections]

\* lines 113-161: a polyline and a marker per section, both timers started,
\* counter = 0
addRouteShapeToMap(dom, r) ==
  [dom EXCEPT
     !.helpers = Append(@, "addRouteShapeToMap"),
     !.mapObjects = @ \o Flatten([i \in 1..Len(r) |-> <<<<"polyline", i>>, <<"marker", i>>>>]),
     !.sections = [i \in 1..Len(r) |->
                     [counter |-> 0, marker |-> r[i].start,
                      timeout |-> IntervalMs, interval |-> IntervalMs, fires |-> 0]]]

\* lines 227-272: the one group is added to the map once per section
addManueversToMap(dom, r) ==
  [dom EXCEPT
     !.helpers = Append(@, "addManueversToMap"),
     !.mapObjects = @ \o [i \in 1..Len(r) |-> <<"group", 0>>]]

\* lines 278-293
addWaypointsToPanel(dom, r) ==
  LET labels == Flatten([i \in 1..Len(r) |-> <<r[i].nextRoad, r[i].currentRoad>>])
  IN [dom EXCEPT
        !.helpers = Append(@, "addWaypointsToPanel"),
        !.panel = <<[tag |-> "h3", content |-> labels]>>]

\* lines 328-352
addManueversToPanel(dom, r) ==
  LET items == Flatten([i \in 1..Len(r) |->
                          [j \in 1..Len(r[i].actions) |-> r[i].actions[j].instruction]])
  IN [dom EXCEPT
        !.helpers = Append(@, "addManueversToPanel"),
        !.panel = Append(@, [tag |-> "ol", content |-> items])]

\* lines 354-358: minutes and seconds
toMMSS(duration) == <<duration \div 60, duration % 60>>

\* lines 299-322
addSummaryToPanel(dom, r) ==
  LET distance == Sum([i \in 1..Len(r) |-> r[i].travelSummary.length])
      duration == Sum([i \in 1..Len(r) |-> r[i].travelSummary.duration])
  IN [dom EXCEPT
        !.helpers = Append(@, "addSummaryToPanel"),
        !.panel = Append(@, [tag |-> "div", content |-> <<distance>> \o toMMSS(duration)])]

\* onSuccess with the last two helpers in the other order
RenderedSummaryFirst(dom, r) ==
  addManueversToPanel(
    addSummaryToPanel(
      addWaypointsToPanel(
        addManueversToMap(
          addRouteShapeToMap(dom, r), r), r), r), r)

\* lines 29-42
Rendered(dom, r) ==
  addSummaryToPanel(
    addManueversToPanel(
      addWaypointsToPanel(
        addManueversToMap(
          addRouteShapeToMap(dom, r), r), r), r), r)

\* line 361 has run calculateRouteFromAtoB: the request is in flight
Init ==
  /\ request = "pending"
  /\ requests = 1
  /\ alerts = 0
  /\ helpers = <<>>
  /\ mapObjects = <<>>
  /\ panel \in Panels
  /\ route = <<>>
  /\ sections = <<>>
  /\ sessions = <<>>

onSuccess ==
  /\ request = "pending"
  /\ \E r \in Routes :
       LET dom == Rendered(Dom, r)
       IN /\ route' = r
          /\ helpers' = dom.helpers
          /\ mapObjects' = dom.mapObjects
          /\ panel' = dom.panel
          /\ sections' = dom.sections
  /\ request' = "ok"
  /\ UNCHANGED <<requests, alerts, sessions>>

\* onError that also empties the panel
onErrorClearsPanel ==
  /\ request = "pending"
  /\ request' = "failed"
  /\ alerts' = alerts + 1
  /\ panel' = <<>>
  /\ UNCHANGED <<requests, helpers, mapObjects, route, sections, sessions>>

\* lines 48-50
onError ==
  /\ request = "pending"
  /\ request' = "failed"
  /\ alerts' = alerts + 1
  /\ UNCHANGED <<requests, helpers, mapObjects, panel, route, sections, sessions>>

\* updateMarkerPositions that wraps the counter one entry too late
updateMarkerPositionsLateWrap(m) ==
  LET sec == sections[m]
      newPosition == initialPositions[sec.counter + 1]
      session == ease(sec.marker, newPosition, MarkerDurationMs, m)
  IN [sessions |-> sessions @@ (<<m, sec.fires + 1>> :> session),
      sections |-> [sections EXCEPT
         ![m].counter = IF sec.counter = Len(initialPositions) THEN 0
                        ELSE sec.counter + 1,
         ![m].fires = sec.fires + 1]]

\* updateMarkerPositions that drops the pending tick of the sessions it
\* started earlier for the same marker
updateMarkerPositionsCancelling(m) ==
  LET sec == sections[m]
      newPosition == initialPositions[sec.counter + 1]
      session == ease(sec.marker, newPosition, MarkerDurationMs, m)
      kept == [id \in DOMAIN sessions |->
                 IF id[1] = m THEN [sessions[id] EXCEPT !.raf = NotScheduled]
                 ELSE sessions[id]]
  IN [sessions |-> kept @@ (<<m, sec.fires + 1>> :> session),
      sections |-> [sections EXCEPT
         ![m].counter = IF sec.counter = Len(initialPositions) - 1 THEN 0
                        ELSE sec.counter + 1,
         ![m].fires = sec.fires + 1]]

\* lines 163-182, for the marker of section m: the sessions and sections
\* it leaves behind
updateMarkerPositions(m) ==
  LET sec == sections[m]
      newPosition == initialPositions[sec.counter + 1]
      session == ease(sec.marker, newPosition, MarkerDurationMs, m)
  IN [sessions |-> sessions @@ (<<m, sec.fires + 1>> :> session),
      sections |-> [sections EXCEPT
         ![m].counter = IF sec.counter = Len(initialPositions) - 1 THEN 0
                        ELSE sec.counter + 1,
         ![m].fires = sec.fires + 1]]

\* a timer of a section that has used up its MaxFires invocations is no
\* longer followed
Armed(m) == sections[m].fires < MaxFires

\* line 145: the one-shot timer of section m fires
TimeoutFire(m) ==
  /\ Armed(m)
  /\ sections[m].timeout = 0
  /\ LET after == updateMarkerPositions(m)
     IN /\ sessions' = after.sessions
        /\ sections' = [after.sections EXCEPT ![m].timeout = NotScheduled]
  /\ UNCHANGED page

\* line 146: the periodic timer of section m fires
IntervalFire(m) ==
  /\ Armed(m)
  /\ sections[m].interval = 0
  /\ LET after == updateMarkerPositions(m)
     IN /\ sessions' = after.sessions
        /\ sections' = [after.sections EXCEPT ![m].interval = IntervalMs]
  /\ UNCHANGED page

\* lines 173-175 with 205-217: the due step() of a session runs and its
\* onStep moves the marker
Tick(id) ==
  /\ sessions[id].raf = 0
  /\ \E s \in {Ticked(sessions[id])} :
       /\ sessions' = [sessions EXCEPT ![id] = s]
       /\ sections' = [sections EXCEPT
                         ![s.marker].marker = LastStep(s.calls, @)]
  /\ UNCHANGED page

\* the delays still to run: armed timers and scheduled steps
Pending ==
  {sections[m].timeout : m \in {n \in DOMAIN sections : Armed(n)}}
    \cup {sections[m].interval : m \in {n \in DOMAIN sections : Armed(n)}}
    \cup {sessions[id].raf : id \in DOMAIN sessions}

\* nothing is due: time passes until the next timer or step is
AdvanceTime ==
  LET waits == Pending \ {NotScheduled}
      delta == CHOOSE w \in waits : \A o \in waits : w <= o
      pass(w) == IF w = NotScheduled THEN w ELSE w - delta
  IN /\ waits # {}
     /\ 0 \notin waits
     /\ sections' = [m \in DOMAIN sections |->
                       IF Armed(m)
                         THEN [sections[m] EXCEPT !.timeout = pass(@), !.interval = pass(@)]
                         ELSE sections[m]]
     /\ sessions' = [id \in DOMAIN sessions |-> [sessions[id] EXCEPT !.raf = pass(@)]]
     /\ UNCHANGED page

Next ==
  \/ onSuccess
  \/ onError
  \/ \E m \in DOMAIN sections : TimeoutFire(m)
  \/ \E m \in DOMAIN sections : IntervalFire(m)
  \/ \E id \in DOMAIN sessions : Tick(id)
  \/ AdvanceTime

Spec == Init /\ [][Next]_vars

SessionIds == (1..MaxSections) \X (1..MaxFires)

\* the event loop runs every due callback and time passes
FairSpec ==
  /\ Spec
  /\ WF_vars(AdvanceTime)
  /\ WF_vars(\E m \in DOMAIN sections : TimeoutFire(m))
  /\ WF_vars(\E m \in DOMAIN sections : IntervalFire(m))
  /\ \A id \in SessionIds : WF_vars(id \in DOMAIN sessions /\ Tick(id))

\* ------------------------------------------------------------ claims ----
Positive(s) == s.durationMs > 0

SameArgs(s, o) ==
  /\ s.startCoord = o.startCoord
  /\ s.endCoord = o.endCoord
  /\ s.durationMs = o.durationMs

IsPrefix(short, long) ==
  Len(short) <= Len(long) /\ \A k \in 1..Len(short) : short[k] = long[k]

\* C1: in a session with positive durationMs onComplete is called at most
\* once, it is the last call of the session, and the call right before it
\* is the onStep that carries the end position.
C1_CompleteOnceAfterFinalStep ==
  \A id \in DOMAIN sessions :
    LET s == sessions[id]
    IN Positive(s) =>
         /\ Len(OnCompletes(s)) <= 1
         /\ \A k \in 1..Len(s.calls) :
              s.calls[k][1] = "onComplete" =>
                /\ k = Len(s.calls)
                /\ k > 1
                /\ s.calls[k - 1] = <<"onStep", s.endCoord>>

C1_Witness ==
  \E id \in DOMAIN sessions :
    /\ Positive(sessions[id])
    /\ Completed(sessions[id])
    /\ Len(OnSteps(sessions[id])) >= 3

\* C2: in a session with positive durationMs the last onStep of a finished
\* session received endCoord itself, every onStep before it received the
\* accumulated currentValueLat / currentValueLng of its tick, and calls
\* already made are never changed.
C2_FinalStepIsEndCoord ==
  /\ [](\A id \in DOMAIN sessions :
          LET s == sessions[id]
          IN Positive(s) /\ s.calls # <<>> =>
               IF Completed(s)
                 THEN LastStep(s.calls, s.startCoord) = s.endCoord
                 ELSE s.calls[Len(s.calls)] =
                        <<"onStep", Current(s)>>)
  /\ [][\A id \in DOMAIN sessions : IsPrefix(sessions[id].calls, sessions'[id].calls)]_vars

C2_Witness ==
  \E id \in DOMAIN sessions :
    LET s == sessions[id]
    IN /\ Positive(s)
       /\ Completed(s)
       /\ Len(OnSteps(s)) >= 2
       /\ Current(s) # s.endCoord

\* C3: when every due callback is eventually run, every session the page
\* starts eventually calls onComplete; a session that has called it is
\* never scheduled or changed again, whatever the timers do later.
C3_SessionsComplete ==
  /\ \A id \in SessionIds :
       (id \in DOMAIN sessions) ~> (id \in DOMAIN sessions /\ Completed(sessions[id]))
  /\ [][\A id \in DOMAIN sessions :
          Completed(sessions[id]) =>
            /\ sessions[id].raf = NotScheduled
            /\ id \in DOMAIN sessions'
            /\ sessions'[id] = sessions[id]]_vars

C3_Witness ==
  \E m \in DOMAIN sections :
    /\ <<m, 1>> \in DOMAIN sessions
    /\ <<m, 3>> \in DOMAIN sessions
    /\ Completed(sessions[<<m, 1>>])
    /\ Completed(sessions[<<m, 3>>])

\* C4: a session whose durationMs is zero or negative reaches its
\* onComplete after finitely many ticks.
C4_NonPositiveDurationTerminates ==
  \A id \in EaseIds :
    (id \in DOMAIN sessions /\ ~Positive(sessions[id]))
      ~> (id \in DOMAIN sessions /\ Completed(sessions[id]))

\* C5: a finished session whose stepCount = durationMs / 16 is a positive
\* integer N has made exactly N onStep calls, the last of them the
\* exact-end one.
C5_ExactlyStepCountSteps ==
  \A id \in DOMAIN sessions :
    LET s == sessions[id]
    IN Positive(s) /\ s.durationMs % TickMs = 0 /\ Completed(s) =>
         /\ Len(OnSteps(s)) = s.durationMs \div TickMs
         /\ LastStep(s.calls, s.startCoord) = s.endCoord

C7_CounterCycles ==
  /\ [](\A m \in DOMAIN sections :
          LET sec == sections[m]
          IN /\ sec.counter \in 0..5
             /\ sec.counter = sec.fires % 6
             /\ \A k \in 1..sec.fires :
                  /\ <<m, k>> \in DOMAIN sessions
                  /\ sessions[<<m, k>>].endCoord = initialPositions[((k - 1) % 6) + 1])
  /\ [][(\E m \in DOMAIN sections : sections'[m].fires # sections[m].fires) =>
          \A id \in DOMAIN sessions :
            id \in DOMAIN sessions' /\ sessions'[id] = sessions[id]]_vars

C7_Witness ==
  \E m \in DOMAIN sections :
    /\ sections[m].fires = 7
    /\ sections[m].counter = 1
    /\ sessions[<<m, 7>>].endCoord = initialPositions[1]

\* C8: after a failed request the alert has been shown once, no helper has
\* run, the map has no object, no timer or session exists, the request was
\* issued once, the panel is as it was, and nothing happens afterwards.
C8_ErrorOnlyAlerts ==
  /\ [](request = "failed" =>
          /\ alerts = 1
          /\ requests = 1
          /\ helpers = <<>>
          /\ mapObjects = <<>>
          /\ DOMAIN sections = {}
          /\ DOMAIN sessions = {})
  /\ [][request' = "failed" => panel' = panel]_vars
  /\ [][request # "failed"]_vars

C8_Witness == request = "failed" /\ alerts = 1 /\ panel = <<Stale>>

Offset(r, i) == Sum([n \in 1..(i - 1) |-> Len(r[n].actions)])

\* C9: after a successful response the five helpers have run once each in
\* the order of onSuccess and the panel holds three children: the heading
\* of waypoint labels, the list with one item per action in section then
\* action order, and the distance / duration summary.
C9_FiveHelpersThreeChildren ==
  request = "ok" =>
    /\ helpers = <<"addRouteShapeToMap", "addManueversToMap", "addWaypointsToPanel",
                   "addManueversToPanel", "addSummaryToPanel">>
    /\ Len(panel) = 3
    /\ panel[1].tag = "h3"
    /\ Len(panel[1].content) = 2 * Len(route)
    /\ \A i \in 1..Len(route) :
         /\ panel[1].content[2 * i - 1] = route[i].nextRoad
         /\ panel[1].content[2 * i] = route[i].currentRoad
    /\ panel[2].tag = "ol"
    /\ Len(panel[2].content) = Offset(route, Len(route) + 1)
    /\ \A i \in 1..Len(route) : \A j \in 1..Len(route[i].actions) :
         panel[2].content[Offset(route, i) + j] = route[i].actions[j].instruction
    /\ panel[3].tag = "div"
    /\ panel[3].content[1] = Sum([i \in 1..Len(route) |-> route[i].travelSummary.length])
    /\ panel[3].content[2] * 60 + panel[3].content[3]
         = Sum([i \in 1..Len(route) |-> route[i].travelSummary.duration])
    /\ panel[3].content[3] \in 0..59

C9_Witness ==
  /\ request = "ok"
  /\ Len(route) = 2
  /\ Len(route[1].actions) = 2
  /\ Len(panel) = 3
  /\ panel[3].content = <<2100, 3, 4>>

\* C10: when updateMarkerPositions starts a session for a marker, every
\* session it started earlier for that marker has finished, and the new
\* session starts where the previous one ended.
C10_SessionsNeverOverlap ==
  \A id \in DOMAIN sessions, od \in DOMAIN sessions :
    id[1] = od[1] /\ od[2] + 1 = id[2] /\ sessions[id].calls = <<>> =>
      /\ Completed(sessions[od])
      /\ sessions[id].startCoord = sessions[od].endCoord

====
